---- MODULE Spec2Model ----
(***************************************************************************)
(* ockam_api::cloud::enroll                                                *)
(*                                                                         *)
(* The three NodeManager entry points (enroll_auth0,                       *)
(* generate_enrollment_token, authenticate_enrollment_token), the shared   *)
(* authenticate_token flow, the CBOR body types of the module and the      *)
(* EnrollHandler worker of the tests module, as a state machine.           *)
(*                                                                         *)
(* A call of an entry point is one task.  It runs atomically from one      *)
(* .await to the next; the awaits of the code are the three collaborator   *)
(* calls secure_channel, request and delete_secure_channel.                *)
(***************************************************************************)
EXTENDS Integers, FiniteSets, Sequences, TLC

\* ------------------------------------------------------------------ bounds
NumCalls == 2       \* tasks that may run concurrently
MaxId == 2          \* ids of the requests sent to EnrollHandler: 1..MaxId
MaxVal == 2         \* distinct token strings / attribute maps: 1..MaxVal

Calls == 1..NumCalls
ReqIds == 1..MaxId
Vals == 1..MaxVal

\* ------------------------------------------------ program constants (tags)
TagAuthenticateAuth0Token == 1058055
TagRequestEnrollmentToken == 8560526
TagEnrollmentToken == 8932763
TagAuthenticateEnrollmentToken == 9463780
TokenTypeBearer == 0

Tags == { TagAuthenticateAuth0Token, TagRequestEnrollmentToken,
          TagEnrollmentToken, TagAuthenticateEnrollmentToken }

\* ------------------------------------------------------------- CBOR values
\* A CBOR item is [t, v]: t its major kind, v an integer (the number, or the
\* index of a string / attribute map).  A body is a CBOR map with the keys
\* 0, 1 and 2; an absent key holds None.
None == [t |-> "none", v |-> 0]
CInt(n) == [t |-> "int", v |-> n]
CStr(s) == [t |-> "str", v |-> s]
CMap(a) == [t |-> "map", v |-> a]

K0Items == {None} \cup {CInt(n) : n \in Tags}
K1Items == {None, CInt(0), CInt(1)} \cup {CStr(s) : s \in Vals} \cup {CMap(a) : a \in Vals}
K2Items == {None, CInt(0)} \cup {CStr(s) : s \in Vals}

Bodies == [k0 : K0Items, k1 : K1Items, k2 : K2Items]
EmptyBody == [k0 |-> None, k1 |-> None, k2 |-> None]

\* TypeTag<N>: present only in builds with the feature "tag"; then the key 0
\* must hold exactly N.
TypeTagOk(tag, item, n) == tag => item = CInt(n)
TypeTagItem(tag, n) == IF tag THEN CInt(n) ELSE None

\* ---------------------------------------------------------- Decode / Encode
\* #[cbor(index_only)] enum TokenType { #[n(0)] Bearer }
DecodesTokenType(item) == item = CInt(TokenTypeBearer)

\* #[cbor(transparent)] struct Token(Cow<str>)
DecodesToken(item) == item.t = "str"

DecodesAuthenticateAuth0Token(tag, b) ==
    /\ TypeTagOk(tag, b.k0, TagAuthenticateAuth0Token)
    /\ DecodesTokenType(b.k1)
    /\ DecodesToken(b.k2)

DecodesRequestEnrollmentToken(tag, b) ==
    /\ TypeTagOk(tag, b.k0, TagRequestEnrollmentToken)
    /\ b.k1.t = "map"

DecodesEnrollmentToken(tag, b) ==
    /\ TypeTagOk(tag, b.k0, TagEnrollmentToken)
    /\ DecodesToken(b.k1)

DecodesAuthenticateEnrollmentToken(tag, b) ==
    /\ TypeTagOk(tag, b.k0, TagAuthenticateEnrollmentToken)
    /\ DecodesToken(b.k1)

\* AuthenticateAuth0Token::new + Encode
AuthenticateAuth0Token(tag, token_type, access_token) ==
    [k0 |-> TypeTagItem(tag, TagAuthenticateAuth0Token),
     k1 |-> CInt(token_type),
     k2 |-> CStr(access_token)]

\* RequestEnrollmentToken::new + Encode
RequestEnrollmentToken(tag, attributes) ==
    [k0 |-> TypeTagItem(tag, TagRequestEnrollmentToken),
     k1 |-> CMap(attributes),
     k2 |-> None]

\* EnrollmentToken::new + Encode
EnrollmentToken(tag, token) ==
    [k0 |-> TypeTagItem(tag, TagEnrollmentToken),
     k1 |-> CStr(token),
     k2 |-> None]

\* Mutant of AuthenticateEnrollmentToken: the EnrollmentToken is forwarded as
\* it came, not rebuilt as an AuthenticateEnrollmentToken.
AuthenticateEnrollmentToken_Unwrapped(tag, enrollment_token) == enrollment_token

\* AuthenticateEnrollmentToken::new(EnrollmentToken) + Encode: token: token.token
AuthenticateEnrollmentToken(tag, enrollment_token) ==
    [k0 |-> TypeTagItem(tag, TagAuthenticateEnrollmentToken),
     k1 |-> enrollment_token.k1,
     k2 |-> None]

\* The four structs with a TypeTag.
Structs ==
    {"AuthenticateAuth0Token", "RequestEnrollmentToken",
     "EnrollmentToken", "AuthenticateEnrollmentToken"}

\* The encoding of a value of struct s built from v (a token string, or an
\* attribute map for RequestEnrollmentToken).
Encode(tag, s, v) ==
    CASE s = "AuthenticateAuth0Token" -> AuthenticateAuth0Token(tag, TokenTypeBearer, v)
      [] s = "RequestEnrollmentToken" -> RequestEnrollmentToken(tag, v)
      [] s = "EnrollmentToken" -> EnrollmentToken(tag, v)
      [] OTHER -> AuthenticateEnrollmentToken(tag, EnrollmentToken(tag, v))

\* dec.decode::<s>().is_ok()
Decodes(tag, s, b) ==
    CASE s = "AuthenticateAuth0Token" -> DecodesAuthenticateAuth0Token(tag, b)
      [] s = "RequestEnrollmentToken" -> DecodesRequestEnrollmentToken(tag, b)
      [] s = "EnrollmentToken" -> DecodesEnrollmentToken(tag, b)
      [] OTHER -> DecodesAuthenticateEnrollmentToken(tag, b)

\* ------------------------------------------------------- wire envelopes
MethodPost == "POST"
PathRoot == "v0/"
PathEnroll == "v0/enroll"

StatusOk == "ok"
StatusBadRequest == "bad_request"
StatusInternalServerError == "internal_server_error"

\* Response {re: the id of the request answered, status, body}.  The body is
\* absent ("none"), a CBOR struct ("cbor") or a text string ("text").
MkResponse(re, status, kind, cbor, text) ==
    [re |-> re, status |-> status, kind |-> kind, cbor |-> cbor, text |-> text]
NoResponse == MkResponse(0, "none", "none", EmptyBody, "")

\* Result<Vec<u8>>
Ok(bytes) == [ok |-> TRUE, bytes |-> bytes, err |-> ""]
Err(e) == [ok |-> FALSE, bytes |-> NoResponse, err |-> e]
NoResult == [ok |-> FALSE, bytes |-> NoResponse, err |-> "none"]

\* Failures of the downstream request (ockam_core::Error), named by cause.
DownstreamErrors == {"timeout", "transport_drop"}

\* err.to_string()
to_string(err) == err

\* ------------------------------------------------------------ Request
\* Request {id, method, path, has_body} followed by the body.
MkRequest(id, method, path, has_body, body) ==
    [id |-> id, method |-> method, path |-> path, has_body |-> has_body, body |-> body]
NoRequest == MkRequest(0, "NONE", "", FALSE, EmptyBody)

Methods == {MethodPost, "GET", "NONE"}
Paths == {PathRoot, PathEnroll, "v0/unknown"}

Requests ==
    {MkRequest(id, m, p, TRUE, b) : id \in ReqIds, m \in Methods, p \in Paths, b \in Bodies}
    \cup {MkRequest(id, m, p, FALSE, EmptyBody) : id \in ReqIds, m \in Methods, p \in Paths}

\* ------------------------------------------------ tests::EnrollHandler
\* The token the handler issues: Token("ok")
MockToken == 1

\* Response::ok(re) / Response::bad_request(re)
ResponseOk(re) == MkResponse(re, StatusOk, "none", EmptyBody, "")
ResponseBadRequest(re) == MkResponse(re, StatusBadRequest, "none", EmptyBody, "")

\* Mutant of EnrollBodyAccepted: the second decode names EnrollmentToken
\* instead of AuthenticateEnrollmentToken.
EnrollBodyAccepted_EnrollmentToken(tag, body) ==
    \/ DecodesAuthenticateAuth0Token(tag, body)
    \/ DecodesEnrollmentToken(tag, body)

\* The v0/enroll arm: dec.clone().decode::<AuthenticateAuth0Token>().is_ok()
\*                    || dec.decode::<AuthenticateEnrollmentToken>().is_ok()
EnrollBodyAccepted(tag, body) ==
    \/ DecodesAuthenticateAuth0Token(tag, body)
    \/ DecodesAuthenticateEnrollmentToken(tag, body)

\* The v0/ arm: dec.decode::<RequestEnrollmentToken>().is_ok()
IssueBodyAccepted(tag, body) == DecodesRequestEnrollmentToken(tag, body)

\* Mutant of EnrollDecodes: the two operands of || are exchanged.
EnrollDecodes_EnrollmentTokenFirst(tag, body) ==
    IF DecodesAuthenticateEnrollmentToken(tag, body)
    THEN <<"AuthenticateEnrollmentToken">>
    ELSE <<"AuthenticateEnrollmentToken", "AuthenticateAuth0Token">>

\* The v0/enroll arm: the decodes it attempts, in order.  `a || b` evaluates
\* b only if a is false: the second decode runs only after the first failed.
EnrollDecodes(tag, body) ==
    IF DecodesAuthenticateAuth0Token(tag, body)
    THEN <<"AuthenticateAuth0Token">>
    ELSE <<"AuthenticateAuth0Token", "AuthenticateEnrollmentToken">>

\* match (req.method(), req.path(), req.has_body()): the decodes of the body
\* the arm taken attempts, in order.
HandlerDecodes(tag, req) ==
    IF req.method = MethodPost /\ req.path = PathRoot /\ req.has_body
    THEN <<"RequestEnrollmentToken">>
    ELSE IF req.method = MethodPost /\ req.path = PathEnroll /\ req.has_body
    THEN EnrollDecodes(tag, req.body)
    ELSE <<>>

\* Mutant of HandlerResponse: the match looks at the path and the body only,
\* not at the method.
HandlerResponse_AnyMethod(tag, req) ==
    IF req.path = PathRoot /\ req.has_body
    THEN IF IssueBodyAccepted(tag, req.body)
         THEN MkResponse(req.id, StatusOk, "cbor", EnrollmentToken(tag, MockToken), "")
         ELSE ResponseBadRequest(req.id)
    ELSE IF req.path = PathEnroll /\ req.has_body
    THEN IF EnrollBodyAccepted(tag, req.body)
         THEN ResponseOk(req.id)
         ELSE ResponseBadRequest(req.id)
    ELSE ResponseBadRequest(req.id)

\* match (req.method(), req.path(), req.has_body()): the response put in buf
HandlerResponse(tag, req) ==
    IF req.method = MethodPost /\ req.path = PathRoot /\ req.has_body
    THEN IF IssueBodyAccepted(tag, req.body)
         THEN MkResponse(req.id, StatusOk, "cbor", EnrollmentToken(tag, MockToken), "")
         ELSE ResponseBadRequest(req.id)
    ELSE IF req.method = MethodPost /\ req.path = PathEnroll /\ req.has_body
    THEN IF EnrollBodyAccepted(tag, req.body)
         THEN ResponseOk(req.id)
         ELSE ResponseBadRequest(req.id)
    ELSE ResponseBadRequest(req.id)

\* ------------------------------------------------------------- state
VARIABLES
    tag,        \* whether the build has the feature "tag" (cfg(feature = "tag"))
    calls,      \* calls[c]: the task of one call of a NodeManager entry point
    open,       \* the secure channels that are open
    worker,     \* the EnrollHandler worker: the message it handles, the
                \* decodes of the body it attempted, its reply
    codec       \* an encoded struct and the outcome of decoding it as each struct

vars == <<tag, calls, open, worker, codec>>

\* Task c handles the inbound request with id c; the downstream request it
\* sends gets a fresh id (Id::fresh()), and the secure channel opened for it
\* a fresh address.
RequestId(c) == c
FreshId(c) == NumCalls + c
FreshAddress(c) == c

\* CloudRequestWrapper<T> as it arrives: whether the wrapper itself decodes,
\* the item in its req field, and whether route() can build the cloud route.
\* The req item is a struct body, an attribute map, or something else.
ReqStruct(b) == [t |-> "struct", v |-> 0, body |-> b]
ReqAttributes(a) == [t |-> "map", v |-> a, body |-> EmptyBody]
ReqOther == [t |-> "other", v |-> 0, body |-> EmptyBody]

WrapperBodies ==
    {EmptyBody}
    \cup {AuthenticateAuth0Token(tg, TokenTypeBearer, s) : tg \in BOOLEAN, s \in Vals}
    \cup {EnrollmentToken(tg, s) : tg \in BOOLEAN, s \in Vals}
    \cup {RequestEnrollmentToken(TRUE, a) : a \in Vals}

WrapperReqs ==
    {ReqOther} \cup {ReqAttributes(a) : a \in Vals} \cup {ReqStruct(b) : b \in WrapperBodies}

MkWrapper(wellformed, req, route_ok) ==
    [wellformed |-> wellformed, req |-> req, route_ok |-> route_ok]

Wrappers ==
    {MkWrapper(FALSE, ReqOther, TRUE)}
    \cup {MkWrapper(TRUE, req, route_ok) : req \in WrapperReqs, route_ok \in BOOLEAN}

\* The body a flow forwards, as a decoded value: the variant of
\* AuthenticateToken ("Auth0", "EnrollmentToken") or "RequestEnrollmentToken",
\* its token_type (Auth0 only) and its token / attributes.
FlowBody(variant, token_type, v) == [variant |-> variant, token_type |-> token_type, v |-> v]
NoFlowBody == FlowBody("none", 0, 0)

\* A downstream request as handed to request(): the label, the route
\* (cloud_service_route(sc, service)) and the request.
Outbound(label, service, sc, req) ==
    [label |-> label, service |-> service, sc |-> sc, req |-> req]
NoOutbound == Outbound("", "", 0, NoRequest)

\* A task: where it is (pc), the entry point called (fn), the id of the
\* inbound request, how the inbound wrapper fared (inbound: "ok", or the step
\* that failed, "decode" or "route"), the call whose issued token the inbound
\* wrapper carries (redeems, 0 if none), its locals (body, sc, the request
\* sent, r, res), what it returned, and what it has called so far: the channel
\* it passed to delete_secure_channel and the number of calls of each
\* collaborator.
IdleCall ==
    [pc |-> "idle", fn |-> "none", req_id |-> 0, inbound |-> "none", redeems |-> 0,
     body |-> NoFlowBody,
     sc |-> 0, out |-> NoOutbound, r |-> NoResult, res |-> NoResult,
     deleted |-> 0, result |-> NoResult,
     n_open |-> 0, n_req |-> 0, n_del |-> 0]

IdleWorker ==
    [pc |-> "idle", req |-> NoRequest, decodes |-> <<>>,
     replied |-> FALSE, resp |-> NoResponse]

\* No bytes yet: nothing encoded, no decode attempted.
NoCodec == [of |-> "none", body |-> EmptyBody, decoded |-> [s \in Structs |-> "untried"]]

Init ==
    /\ tag \in BOOLEAN
    /\ calls = [c \in Calls |-> IdleCall]
    /\ open = {}
    /\ worker = IdleWorker
    /\ codec = NoCodec

\* ------------------------------------------------------ NodeManager flows
\* The task returns `result` to its caller; its locals body and out are gone.
Return(call, result) ==
    [call EXCEPT !.pc = "returned", !.result = result,
                 !.body = NoFlowBody, !.out = NoOutbound]

\* self.secure_channel(cloud_route).await: the task suspends in the call.
CallSecureChannel(call, body) ==
    [call EXCEPT !.body = body, !.pc = "secure_channel", !.n_open = @ + 1]

\* dec.decode::<CloudRequestWrapper<T>>()
DecodesWrapper(w, t, inner_ok) == w.wellformed /\ w.req.t = t /\ inner_ok

\* enroll_auth0 up to the first await (in authenticate_token)
EnrollAuth0(tg, call, id, w) ==
    LET c0 == [call EXCEPT !.fn = "enroll_auth0", !.req_id = id] IN
    IF ~DecodesWrapper(w, "struct", DecodesAuthenticateAuth0Token(tg, w.req.body))
    THEN Return([c0 EXCEPT !.inbound = "decode"], Err("decode"))
    ELSE IF ~w.route_ok
    THEN Return([c0 EXCEPT !.inbound = "route"], Err("route"))
    ELSE CallSecureChannel([c0 EXCEPT !.inbound = "ok"],
                           FlowBody("Auth0", w.req.body.k1.v, w.req.body.k2.v))

\* Mutant of GenerateEnrollmentToken: no `?` on route(); a wrapper whose route
\* cannot be built goes on to secure_channel.
GenerateEnrollmentToken_NoRouteCheck(tg, call, id, w) ==
    LET c0 == [call EXCEPT !.fn = "generate_enrollment_token", !.req_id = id] IN
    IF ~DecodesWrapper(w, "map", TRUE)
    THEN Return([c0 EXCEPT !.inbound = "decode"], Err("decode"))
    ELSE CallSecureChannel([c0 EXCEPT !.inbound = IF w.route_ok THEN "ok" ELSE "route"],
                           FlowBody("RequestEnrollmentToken", 0, w.req.v))

\* generate_enrollment_token up to the first await
GenerateEnrollmentToken(tg, call, id, w) ==
    LET c0 == [call EXCEPT !.fn = "generate_enrollment_token", !.req_id = id] IN
    IF ~DecodesWrapper(w, "map", TRUE)
    THEN Return([c0 EXCEPT !.inbound = "decode"], Err("decode"))
    ELSE IF ~w.route_ok
    THEN Return([c0 EXCEPT !.inbound = "route"], Err("route"))
    ELSE CallSecureChannel([c0 EXCEPT !.inbound = "ok"],
                           FlowBody("RequestEnrollmentToken", 0, w.req.v))

\* authenticate_enrollment_token up to the first await (in authenticate_token)
AuthenticateEnrollmentTokenEntry(tg, call, id, w) ==
    LET c0 == [call EXCEPT !.fn = "authenticate_enrollment_token", !.req_id = id] IN
    IF ~DecodesWrapper(w, "struct", DecodesEnrollmentToken(tg, w.req.body))
    THEN Return([c0 EXCEPT !.inbound = "decode"], Err("decode"))
    ELSE IF ~w.route_ok
    THEN Return([c0 EXCEPT !.inbound = "route"], Err("route"))
    ELSE CallSecureChannel([c0 EXCEPT !.inbound = "ok"],
                           FlowBody("EnrollmentToken", 0, w.req.body.k1.v))

\* generate_enrollment_token: label, route and req_builder of the request
GenerateRequest(tg, sc, id, body) ==
    Outbound("enrollment_token_generator", "enrollment_token_authenticator", sc,
             MkRequest(id, MethodPost, PathRoot, TRUE,
                       RequestEnrollmentToken(tg, body.v)))

\* Mutant of AuthenticateRequest: the two arms use each other's label.
AuthenticateRequest_SwappedLabels(tg, sc, id, body) ==
    IF body.variant = "Auth0"
    THEN Outbound("enrollment_token_authenticator", "enrollment_token_authenticator", sc,
                  MkRequest(id, MethodPost, PathEnroll, TRUE,
                            AuthenticateAuth0Token(tg, body.token_type, body.v)))
    ELSE Outbound("auth0_authenticator", "auth0_authenticator", sc,
                  MkRequest(id, MethodPost, PathEnroll, TRUE,
                            AuthenticateEnrollmentToken(tg, EnrollmentToken(tg, body.v))))

\* authenticate_token: match body { Auth0 => .., EnrollmentToken => .. }
AuthenticateRequest(tg, sc, id, body) ==
    IF body.variant = "Auth0"
    THEN Outbound("auth0_authenticator", "auth0_authenticator", sc,
                  MkRequest(id, MethodPost, PathEnroll, TRUE,
                            AuthenticateAuth0Token(tg, body.token_type, body.v)))
    ELSE Outbound("enrollment_token_authenticator", "enrollment_token_authenticator", sc,
                  MkRequest(id, MethodPost, PathEnroll, TRUE,
                            AuthenticateEnrollmentToken(tg, EnrollmentToken(tg, body.v))))

\* Mutant of AfterSecureChannel: no `?` on the channel; a failed open goes on
\* to the request with the address it was given.
AfterSecureChannel_NoReturn(tg, call, sc_ok, sc, id) ==
    [call EXCEPT
       !.sc = sc,
       !.out = IF call.fn = "generate_enrollment_token"
               THEN GenerateRequest(tg, sc, id, call.body)
               ELSE AuthenticateRequest(tg, sc, id, call.body),
       !.pc = "request",
       !.n_req = @ + 1]

\* From the return of secure_channel to the await of request: `?` on the
\* channel, then the request is built and sent.  id is the fresh id of the
\* downstream request.
AfterSecureChannel(tg, call, sc_ok, sc, id) ==
    IF ~sc_ok
    THEN Return(call, Err("secure_channel"))
    ELSE [call EXCEPT
            !.sc = sc,
            !.out = IF call.fn = "generate_enrollment_token"
                    THEN GenerateRequest(tg, sc, id, call.body)
                    ELSE AuthenticateRequest(tg, sc, id, call.body),
            !.pc = "request",
            !.n_req = @ + 1]

\* Response::builder(req_id, Status::InternalServerError).body(err.to_string())
ErrorResponse(req_id, err) ==
    MkResponse(req_id, StatusInternalServerError, "text", EmptyBody, to_string(err))

\* Mutant of CallDeleteSecureChannel: the channel passed is not the local sc
\* but the one the first task was given.
CallDeleteSecureChannel_FirstChannel(call) ==
    [call EXCEPT !.pc = "delete_secure_channel", !.deleted = FreshAddress(1),
                 !.n_del = @ + 1, !.body = NoFlowBody, !.out = NoOutbound]

\* self.delete_secure_channel(ctx, sc).await: the task suspends in the call.
\* body and the request were moved into request(): these locals are gone.
CallDeleteSecureChannel(call) ==
    [call EXCEPT !.pc = "delete_secure_channel", !.deleted = call.sc, !.n_del = @ + 1,
                 !.body = NoFlowBody, !.out = NoOutbound]

\* Mutant of AfterRequest: the response of the service is stamped with the id
\* of the inbound request before it is returned.
AfterRequest_Restamped(call, r, to_vec_ok) ==
    LET c1 == [call EXCEPT !.r = r] IN
    IF r.ok
    THEN CallDeleteSecureChannel(
             [c1 EXCEPT !.res = Ok([r.bytes EXCEPT !.re = call.req_id])])
    ELSE IF to_vec_ok
    THEN CallDeleteSecureChannel(
             [c1 EXCEPT !.res = Ok(ErrorResponse(call.req_id, r.err))])
    ELSE Return(c1, Err("encode"))

\* Mutant of AfterRequest: the bytes of a successful request are returned at
\* once, before delete_secure_channel is called.
AfterRequest_ReturnsFirst(call, r, to_vec_ok) ==
    LET c1 == [call EXCEPT !.r = r] IN
    IF r.ok
    THEN Return([c1 EXCEPT !.res = Ok(r.bytes)], Ok(r.bytes))
    ELSE IF to_vec_ok
    THEN CallDeleteSecureChannel(
             [c1 EXCEPT !.res = Ok(ErrorResponse(call.req_id, r.err))])
    ELSE Return(c1, Err("encode"))

\* Mutant of AfterRequest: a request that failed is sent once more.
AfterRequest_Retry(call, r, to_vec_ok) ==
    LET c1 == [call EXCEPT !.r = r] IN
    IF r.ok
    THEN CallDeleteSecureChannel([c1 EXCEPT !.res = Ok(r.bytes)])
    ELSE IF call.n_req < 2
    THEN [call EXCEPT !.n_req = @ + 1]
    ELSE IF to_vec_ok
    THEN CallDeleteSecureChannel(
             [c1 EXCEPT !.res = Ok(ErrorResponse(call.req_id, r.err))])
    ELSE Return(c1, Err("encode"))

\* From the return of request to the await of delete_secure_channel:
\* match r { Ok(r) => Ok(r), Err(err) => Ok(Response..to_vec()?) }
AfterRequest(call, r, to_vec_ok) ==
    LET c1 == [call EXCEPT !.r = r] IN
    IF r.ok
    THEN CallDeleteSecureChannel([c1 EXCEPT !.res = Ok(r.bytes)])
    ELSE IF to_vec_ok
    THEN CallDeleteSecureChannel(
             [c1 EXCEPT !.res = Ok(ErrorResponse(call.req_id, r.err))])
    ELSE Return(c1, Err("encode"))

\* self.delete_secure_channel(ctx, sc).await?; res
AfterDeleteSecureChannel(call, del_ok) ==
    IF del_ok
    THEN Return(call, call.res)
    ELSE Return(call, Err("delete_secure_channel"))

\* The future of the task is dropped: its locals body, out, r and res are gone.
Cancelled(call) ==
    [call EXCEPT !.pc = "cancelled", !.body = NoFlowBody, !.out = NoOutbound,
                 !.r = NoResult, !.res = NoResult]

\* ----------------------------------------------------------------- actions
SetCall(c, call) == calls' = [calls EXCEPT ![c] = call]

\* The secure channel manager: a successful open adds the channel to the
\* open ones, a close that takes effect removes it.
SecureChannelOpened(channels, sc) == channels \cup {sc}
SecureChannelClosed(channels, sc, closed) == IF closed THEN channels \ {sc} ELSE channels

\* Requests are numbered as they arrive: task c starts after task c - 1.
Arrives(c) ==
    /\ calls[c].pc = "idle"
    /\ c > 1 => calls[c - 1].pc # "idle"

\* A request arrives and enroll_auth0 runs to its first await.
enroll_auth0(c) ==
    /\ Arrives(c)
    /\ \E w \in Wrappers : SetCall(c, EnrollAuth0(tag, calls[c], RequestId(c), w))
    /\ UNCHANGED <<tag, open, worker, codec>>

\* A request arrives and generate_enrollment_token runs to its first await.
generate_enrollment_token(c) ==
    /\ Arrives(c)
    /\ \E w \in Wrappers :
           SetCall(c, GenerateEnrollmentToken(tag, calls[c], RequestId(c), w))
    /\ UNCHANGED <<tag, open, worker, codec>>

\* A request arrives and authenticate_enrollment_token runs to its first await.
authenticate_enrollment_token(c) ==
    /\ Arrives(c)
    /\ \E w \in Wrappers :
           SetCall(c, AuthenticateEnrollmentTokenEntry(tag, calls[c], RequestId(c), w))
    /\ UNCHANGED <<tag, open, worker, codec>>

\* The EnrollmentToken a returned generate_enrollment_token call d gave its
\* caller comes back in the wrapper of an authenticate_enrollment_token call,
\* which runs to its first await.
redeem(c) ==
    /\ Arrives(c)
    /\ \E d \in Calls, route_ok \in BOOLEAN :
           /\ calls[d].pc = "returned"
           /\ calls[d].fn = "generate_enrollment_token"
           /\ calls[d].result.ok
           /\ calls[d].result.bytes.status = StatusOk
           /\ calls[d].result.bytes.kind = "cbor"
           /\ SetCall(c, AuthenticateEnrollmentTokenEntry(
                             tag, [calls[c] EXCEPT !.redeems = d], RequestId(c),
                             MkWrapper(TRUE, ReqStruct(calls[d].result.bytes.cbor),
                                       route_ok)))
    /\ UNCHANGED <<tag, open, worker, codec>>

\* secure_channel returns: a new open channel, or a failure.  The task runs
\* on to the await of request.
secure_channel(c) ==
    /\ calls[c].pc = "secure_channel"
    /\ \/ /\ SetCall(c, AfterSecureChannel(tag, calls[c], TRUE, FreshAddress(c), FreshId(c)))
          /\ open' = SecureChannelOpened(open, FreshAddress(c))
       \/ /\ SetCall(c, AfterSecureChannel(tag, calls[c], FALSE, 0, 0))
          /\ UNCHANGED open
    /\ UNCHANGED <<tag, worker, codec>>

\* What request() can return: the response of the cloud service (here the
\* EnrollHandler worker) if the channel of the route is open, or a failure.
RequestOutcomes(tg, out, channels) ==
    {Err(e) : e \in DownstreamErrors}
    \cup (IF out.sc \in channels THEN {Ok(HandlerResponse(tg, out.req))} ELSE {})

\* request returns.  The task runs on to the await of delete_secure_channel,
\* or returns if the error response cannot be encoded.
request(c) ==
    /\ calls[c].pc = "request"
    /\ \E r \in RequestOutcomes(tag, calls[c].out, open), to_vec_ok \in BOOLEAN :
           SetCall(c, AfterRequest(calls[c], r, to_vec_ok))
    /\ UNCHANGED <<tag, open, worker, codec>>

\* delete_secure_channel returns, and the task returns.  A delete that
\* succeeds closes the channel; one that fails may have closed it or not.
delete_secure_channel(c) ==
    /\ calls[c].pc = "delete_secure_channel"
    /\ \E del_ok \in BOOLEAN, closed \in BOOLEAN :
           /\ del_ok => closed
           /\ SetCall(c, AfterDeleteSecureChannel(calls[c], del_ok))
           /\ open' = SecureChannelClosed(open, calls[c].deleted, closed)
    /\ UNCHANGED <<tag, worker, codec>>

\* The task is cancelled (its future is dropped) while suspended in an await.
\* Nothing of the function runs any more.  A delete that was in progress may
\* have closed the channel or not.
cancel(c) ==
    /\ calls[c].pc \in {"secure_channel", "request", "delete_secure_channel"}
    /\ SetCall(c, Cancelled(calls[c]))
    /\ \/ UNCHANGED open
       \/ /\ calls[c].pc = "delete_secure_channel"
          /\ calls[c].deleted \in open
          /\ open' = SecureChannelClosed(open, calls[c].deleted, TRUE)
    /\ UNCHANGED <<tag, worker, codec>>

\* EnrollHandler::handle_message up to its await: decode the Request (`?`),
\* build the response into buf (`?` on encode) and send it to the return route.
HandleMessage(tg, is_request, req, encode_ok) ==
    IF is_request /\ encode_ok
    THEN [pc |-> "send", req |-> req, decodes |-> HandlerDecodes(tg, req),
          replied |-> TRUE, resp |-> HandlerResponse(tg, req)]
    ELSE [pc |-> "failed", req |-> IF is_request THEN req ELSE NoRequest,
          decodes |-> IF is_request THEN HandlerDecodes(tg, req) ELSE <<>>,
          replied |-> FALSE, resp |-> NoResponse]

\* A message arrives at the worker, which handles one message at a time.
handle_message ==
    /\ worker.pc = "idle"
    /\ \E is_request \in BOOLEAN, req \in Requests, encode_ok \in BOOLEAN :
           worker' = HandleMessage(tag, is_request, req, encode_ok)
    /\ UNCHANGED <<tag, calls, open, codec>>

\* handle_message returns (ctx.send has returned, or a `?` has): the worker
\* is ready for the next message.
handle_message_returns ==
    /\ worker.pc \in {"send", "failed"}
    /\ worker' = IdleWorker
    /\ UNCHANGED <<tag, calls, open, codec>>

\* A value of struct s is built from v and encoded.
encode(s, v) ==
    /\ codec.of = "none"
    /\ codec' = [NoCodec EXCEPT !.of = s, !.body = Encode(tag, s, v)]
    /\ UNCHANGED <<tag, calls, open, worker>>

\* The encoded bytes are decoded as struct s.
decode(s) ==
    /\ codec.of # "none"
    /\ codec.decoded[s] = "untried"
    /\ codec' = [codec EXCEPT !.decoded[s] =
                                  IF Decodes(tag, s, codec.body) THEN "ok" ELSE "err"]
    /\ UNCHANGED <<tag, calls, open, worker>>

Next ==
    \E c \in Calls :
        \/ enroll_auth0(c)
        \/ generate_enrollment_token(c)
        \/ authenticate_enrollment_token(c)
        \/ secure_channel(c)
        \/ request(c)
        \/ delete_secure_channel(c)
        \/ cancel(c)

Spec == Init /\ [][Next]_vars

\* The EnrollHandler worker alone, handling any message sent to it.
NextHandler == handle_message \/ handle_message_returns

SpecHandler == Init /\ [][NextHandler]_vars

\* The calls run to their end: no task is cancelled, and every collaborator
\* call a task is suspended in eventually returns, with success or failure.
NextLive ==
    \E c \in Calls :
        \/ enroll_auth0(c)
        \/ generate_enrollment_token(c)
        \/ authenticate_enrollment_token(c)
        \/ secure_channel(c)
        \/ request(c)
        \/ delete_secure_channel(c)

SpecLive ==
    /\ Init
    /\ [][NextLive]_vars
    /\ \A c \in Calls :
           /\ WF_vars(secure_channel(c))
           /\ WF_vars(request(c))
           /\ WF_vars(delete_secure_channel(c))

\* Issuing enrollment tokens and redeeming the tokens issued.
NextRoundTrip ==
    \E c \in Calls :
        \/ generate_enrollment_token(c)
        \/ redeem(c)
        \/ secure_channel(c)
        \/ request(c)
        \/ delete_secure_channel(c)

SpecRoundTrip == Init /\ [][NextRoundTrip]_vars

\* Encode and Decode of the four structs alone.
NextCodec ==
    \/ \E s \in Structs, v \in Vals : encode(s, v)
    \/ \E s \in Structs : decode(s)

SpecCodec == Init /\ [][NextCodec]_vars

\* ------------------------------------------------------------ properties
Returned(c) == calls[c].pc = "returned"

\* secure_channel succeeded in this call: it holds a channel address.
Opened(c) == calls[c].sc # 0

\* request returned in this call, with Ok or with Err.
RequestReturned(c) == calls[c].r # NoResult

\* request returned Err in this call.
DownstreamFailed(c) == ~calls[c].r.ok /\ calls[c].r.err \in DownstreamErrors

Statuses == {StatusOk, StatusBadRequest, StatusInternalServerError}

\* C1: in a call whose secure_channel succeeded and whose request returned
\* (Ok or Err), delete_secure_channel has been called exactly once, on that
\* channel, when the call returns, and the channel is no longer open.
C1_DeletedOnceOnOkAndErr ==
    \A c \in Calls :
        (Returned(c) /\ Opened(c) /\ RequestReturned(c))
            => /\ calls[c].n_del = 1
               /\ calls[c].deleted = calls[c].sc
               /\ calls[c].sc \notin open

\* C2: no call returns, on any exit path (a local error after the open
\* included), with the channel it opened still open: at every return after
\* secure_channel succeeded the channel has been closed, exactly once.
C2_NoReturnWithChannelOpen ==
    \A c \in Calls :
        (Returned(c) /\ Opened(c))
            => /\ calls[c].sc \notin open
               /\ calls[c].n_del = 1

\* C3: once res is computed (the success bytes or the error-status response),
\* the call returns res, whatever delete_secure_channel returns.
C3_CloseFailureKeepsResponse ==
    \A c \in Calls :
        (Returned(c) /\ calls[c].res.ok) => calls[c].result = calls[c].res

\* C4: when request returned Err and the error response was built, the call
\* returns Ok with a response of status internal-server-error, the id of the
\* inbound request and the text of the failure.
C4_DownstreamFailureIsOkResponse ==
    \A c \in Calls :
        (Returned(c) /\ DownstreamFailed(c) /\ calls[c].res.ok)
            => /\ calls[c].result.ok
               /\ calls[c].result.bytes.status = StatusInternalServerError
               /\ calls[c].result.bytes.re = calls[c].req_id
               /\ calls[c].result.bytes.kind = "text"
               /\ calls[c].result.bytes.text = to_string(calls[c].r.err)

\* C5: whatever happens while a request is handled (decoding, route
\* extraction, channel open, downstream call, channel close), what the caller
\* gets back is a response envelope with status ok, bad-request or
\* internal-server-error, never an error.
C5_CallerAlwaysGetsEnvelope ==
    \A c \in Calls :
        Returned(c)
            => /\ calls[c].result.ok
               /\ calls[c].result.bytes.status \in Statuses

C7_UnknownRouteIsBadRequest ==
    (/\ worker.pc = "send"
     /\ ~(worker.req.method = MethodPost /\ worker.req.path \in {PathRoot, PathEnroll}))
        => /\ worker.resp.status = StatusBadRequest
           /\ worker.resp.re = worker.req.id
           /\ open = {}
           /\ \A c \in Calls : calls[c].n_open = 0

C7_Witness ==
    /\ worker.pc = "send"
    /\ worker.req.method = "GET"
    /\ worker.req.path = PathEnroll
    /\ worker.req.has_body
    /\ DecodesAuthenticateAuth0Token(tag, worker.req.body)
    /\ worker.req.id = MaxId
    /\ worker.resp.status = StatusBadRequest
    /\ worker.resp.re = MaxId

\* C8: a call whose secure_channel failed has sent no downstream request and
\* called no delete_secure_channel, and returns the failure as its error.
C8_OpenFailureIsLocalError ==
    \A c \in Calls :
        (calls[c].n_open >= 1 /\ ~Opened(c) /\ calls[c].pc \notin {"secure_channel", "cancelled"})
            => /\ Returned(c)
               /\ calls[c].n_req = 0
               /\ calls[c].n_del = 0
               /\ ~calls[c].result.ok
               /\ calls[c].result.err = "secure_channel"

C8_Witness ==
    \E c \in Calls :
        /\ Returned(c) /\ calls[c].n_open = 1 /\ ~Opened(c)
        /\ calls[c].result = Err("secure_channel")

\* C9: a task cancelled after its secure channel was opened has called
\* delete_secure_channel on that channel.
C9_CancelledStillDeletes ==
    \A c \in Calls :
        (calls[c].pc = "cancelled" /\ Opened(c))
            => calls[c].n_del = 1 /\ calls[c].deleted = calls[c].sc

\* C10: the request authenticate_token sends is a function of the variant:
\* Auth0 goes to "auth0_authenticator", EnrollmentToken to
\* "enrollment_token_authenticator", both as POST v0/enroll, with the
\* variant's payload as the body.
C10_FlowSelection ==
    \A c \in Calls :
        (calls[c].pc = "request" /\ calls[c].fn # "generate_enrollment_token")
            => /\ calls[c].out.req.method = MethodPost
               /\ calls[c].out.req.path = PathEnroll
               /\ calls[c].out.req.has_body
               /\ calls[c].body.variant = "Auth0"
                    => /\ calls[c].out.service = "auth0_authenticator"
                       /\ DecodesAuthenticateAuth0Token(tag, calls[c].out.req.body)
                       /\ calls[c].out.req.body.k1 = CInt(calls[c].body.token_type)
                       /\ calls[c].out.req.body.k2 = CStr(calls[c].body.v)
               /\ calls[c].body.variant = "EnrollmentToken"
                    => /\ calls[c].out.service = "enrollment_token_authenticator"
                       /\ DecodesAuthenticateEnrollmentToken(tag, calls[c].out.req.body)
                       /\ calls[c].out.req.body.k1 = CStr(calls[c].body.v)
               /\ calls[c].body.variant \in {"Auth0", "EnrollmentToken"}

C10_Witness ==
    \E c, d \in Calls :
        /\ calls[c].pc = "request" /\ calls[c].body.variant = "Auth0"
        /\ calls[c].out.service = "auth0_authenticator"
        /\ calls[d].pc = "request" /\ calls[d].body.variant = "EnrollmentToken"
        /\ calls[d].out.service = "enrollment_token_authenticator"
        /\ calls[c].body.v # calls[d].body.v

\* C11: generate_enrollment_token runs its steps in this order: the Attributes
\* are decoded, the channel is opened, RequestEnrollmentToken{attributes} is
\* sent to "enrollment_token_authenticator" as POST v0/ over that channel, the
\* channel is closed whatever request returned, and the call returns what
\* request gave (its bytes, or the internal-server-error response), as it is.
C11_IssuanceOrder ==
    \A c \in Calls :
        calls[c].fn = "generate_enrollment_token"
            => /\ calls[c].pc = "request"
                    => /\ Opened(c)
                       /\ calls[c].n_open = 1
                       /\ calls[c].n_del = 0
                       /\ calls[c].out.service = "enrollment_token_authenticator"
                       /\ calls[c].out.sc = calls[c].sc
                       /\ calls[c].out.req.method = MethodPost
                       /\ calls[c].out.req.path = PathRoot
                       /\ calls[c].out.req.body
                              = RequestEnrollmentToken(tag, calls[c].body.v)
               /\ calls[c].pc = "delete_secure_channel" => RequestReturned(c)
               /\ (Returned(c) /\ RequestReturned(c))
                    => /\ calls[c].n_del = 1
                       /\ calls[c].deleted = calls[c].sc
                       /\ calls[c].result
                              = IF calls[c].r.ok
                                THEN Ok(calls[c].r.bytes)
                                ELSE Ok(ErrorResponse(calls[c].req_id, calls[c].r.err))

C14_OwnChannelOnly ==
    \A c \in Calls :
        /\ calls[c].pc = "request"
             => /\ Opened(c)
                /\ calls[c].out.sc = calls[c].sc
                /\ calls[c].sc \in open
        /\ calls[c].n_del >= 1
             => /\ Opened(c)
                /\ calls[c].deleted = calls[c].sc
        /\ \A d \in Calls \ {c} :
               /\ (Opened(c) /\ Opened(d)) => calls[c].sc # calls[d].sc
               /\ (calls[c].pc = "request" /\ Opened(d)) => calls[c].out.sc # calls[d].sc
               /\ (calls[c].n_del >= 1 /\ Opened(d)) => calls[c].deleted # calls[d].sc

C14_Witness ==
    \E c, d \in Calls :
        /\ c # d
        /\ calls[c].pc = "request"
        /\ calls[c].sc \in open
        /\ Returned(d)
        /\ calls[d].n_del = 1
        /\ calls[d].deleted = calls[d].sc
        /\ calls[d].sc \notin open
        /\ calls[d].sc # calls[c].sc

\* C15: a call sends at most one downstream request: exactly one once it has
\* reached the request, still one after the request failed (no retry), and
\* none if it failed before its channel was opened.
C15_SingleRequest ==
    \A c \in Calls :
        /\ calls[c].n_req <= 1
        /\ calls[c].pc = "request" => calls[c].n_req = 1
        /\ RequestReturned(c) => calls[c].n_req = 1
        /\ DownstreamFailed(c) => calls[c].pc # "request"
        /\ ~Opened(c) => calls[c].n_req = 0
        /\ calls[c].n_req = 1 => (Opened(c) /\ calls[c].n_open = 1)

C15_Witness ==
    \E c, d \in Calls :
        /\ Returned(c)
        /\ DownstreamFailed(c)
        /\ calls[c].n_req = 1
        /\ Returned(d)
        /\ calls[d].n_open = 1
        /\ ~Opened(d)
        /\ calls[d].n_req = 0

\* C16: when request returned Ok and delete_secure_channel succeeded, the call
\* returns exactly the bytes request returned; and the body it forwards holds
\* exactly the inbound data: the Attributes (issuance), the token of the
\* inbound EnrollmentToken, or the token_type and access_token of the bearer
\* token.
C16_PassThrough ==
    \A c \in Calls :
        /\ (Returned(c) /\ calls[c].r.ok /\ calls[c].result.ok)
             => calls[c].result = Ok(calls[c].r.bytes)
        /\ (calls[c].pc = "request" /\ calls[c].body.variant = "RequestEnrollmentToken")
             => /\ calls[c].out.req.body.k1 = CMap(calls[c].body.v)
                /\ calls[c].out.req.body.k2 = None
        /\ (calls[c].pc = "request" /\ calls[c].body.variant = "EnrollmentToken")
             => /\ calls[c].out.req.body.k1 = CStr(calls[c].body.v)
                /\ calls[c].out.req.body.k2 = None
        /\ (calls[c].pc = "request" /\ calls[c].body.variant = "Auth0")
             => /\ calls[c].out.req.body.k1 = CInt(calls[c].body.token_type)
                /\ calls[c].out.req.body.k2 = CStr(calls[c].body.v)

C16_Witness ==
    \E c \in Calls :
        /\ Returned(c)
        /\ calls[c].fn = "generate_enrollment_token"
        /\ calls[c].r.ok
        /\ calls[c].result = Ok(calls[c].r.bytes)
        /\ calls[c].result.bytes.re # calls[c].req_id
        /\ calls[c].result.bytes.cbor = EnrollmentToken(tag, MockToken)

\* C17: bytes encoded as one of the four structs do not decode as any other
\* of them; in particular an encoded EnrollmentToken does not decode as an
\* AuthenticateEnrollmentToken.
C17_NoCrossDecode ==
    \A s \in Structs :
        (codec.of # "none" /\ s # codec.of) => codec.decoded[s] # "ok"

\* C18: in a call of authenticate_token the request is sent only after
\* secure_channel returned a channel, delete_secure_channel is called only
\* after request returned (Ok or Err), and the response is returned only after
\* delete_secure_channel completed.
C18_AuthenticateOrder ==
    \A c \in Calls :
        calls[c].fn \in {"enroll_auth0", "authenticate_enrollment_token"}
            => /\ calls[c].n_req >= 1 => (Opened(c) /\ calls[c].n_open = 1)
               /\ calls[c].pc = "secure_channel"
                    => (calls[c].n_req = 0 /\ calls[c].n_del = 0)
               /\ calls[c].pc = "request"
                    => (~RequestReturned(c) /\ calls[c].n_del = 0)
               /\ calls[c].pc = "delete_secure_channel"
                    => (RequestReturned(c) /\ calls[c].n_req = 1 /\ calls[c].res.ok)
               /\ (Returned(c) /\ calls[c].result.ok)
                    => /\ RequestReturned(c)
                       /\ calls[c].n_del = 1
                       /\ calls[c].result = calls[c].res

C18_Witness ==
    \E c \in Calls :
        /\ calls[c].fn = "enroll_auth0"
        /\ Returned(c)
        /\ calls[c].result.ok
        /\ calls[c].n_open = 1
        /\ calls[c].n_req = 1
        /\ calls[c].n_del = 1
        /\ calls[c].sc \notin open

\* C19: a call whose inbound CloudRequestWrapper did not decode, or whose cloud
\* route could not be built, has returned an error and has called neither
\* secure_channel nor request nor delete_secure_channel.
C19_InboundFailureCallsNothing ==
    \A c \in Calls :
        calls[c].inbound \in {"decode", "route"}
            => /\ Returned(c)
               /\ ~calls[c].result.ok
               /\ calls[c].result.err = calls[c].inbound
               /\ calls[c].n_open = 0
               /\ calls[c].n_req = 0
               /\ calls[c].n_del = 0
               /\ ~Opened(c)

C19_Witness ==
    \E c, d \in Calls :
        /\ calls[c].fn = "generate_enrollment_token"
        /\ calls[c].inbound = "route"
        /\ Returned(c)
        /\ calls[c].n_open = 0
        /\ calls[d].fn \in {"enroll_auth0", "authenticate_enrollment_token"}
        /\ calls[d].inbound = "decode"
        /\ Returned(d)
        /\ calls[d].n_open = 0

\* No call of delete_secure_channel returned an error.
EveryCloseSucceeded ==
    \A c \in Calls :
        ~(Returned(c) /\ calls[c].n_del >= 1 /\ calls[c].result.err = "delete_secure_channel")

\* C20: when every collaborator call eventually returns, every call that
\* started eventually returns, having called secure_channel, request and
\* delete_secure_channel at most once each; and when all calls have returned
\* and every close succeeded, no channel is open.
C20_TerminatesAndReleases ==
    /\ \A c \in Calls : (calls[c].pc # "idle") ~> Returned(c)
    /\ [](\A c \in Calls :
              /\ calls[c].n_open <= 1
              /\ calls[c].n_req <= 1
              /\ calls[c].n_del <= 1)
    /\ [](((\A c \in Calls : Returned(c)) /\ EveryCloseSucceeded) => open = {})

====
